---- MODULE Spec2Model ----
(***************************************************************************)
(* generate_compose.py: one invocation parses its command line, resolves   *)
(* the user name to a "user:" directive, renders the compose document,     *)
(* creates the output directory and writes the file.  The model keeps the  *)
(* document as the character string the f-string builds, the filesystem as *)
(* a set of directories and the content of the files at the output paths,  *)
(* and the two output streams and the exit status of each invocation.      *)
(***************************************************************************)
EXTENDS Integers, Sequences, FiniteSets, TLC

(***************************************************************************)
(* Bounds and program constants                                            *)
(***************************************************************************)
\* number of invocations run one after another in Spec
MaxRuns == 2

\* default of --host-port and of --container-port
DefaultPort == 8443

\* the invocations of SpecConc (two shells started on the same host)
Procs == {1, 2}

\* an option that is not on the command line
Absent == "<absent>"

\* an OSError raised without a file name
NoName == "<none>"

\* no exception pending
NoError == [errno |-> 0, strerror |-> "", filename |-> NoName]

(***************************************************************************)
(* Strings: TLC's Len, SubSeq and \o work on strings character by          *)
(* character.                                                              *)
(***************************************************************************)
Char(s, i) == SubSeq(s, i, i)

\* s[:n]
Prefix(s, n) == SubSeq(s, 1, n)

\* s[n:]
Suffix(s, n) == SubSeq(s, n + 1, Len(s))

StartsWith(s, t) == Len(t) <= Len(s) /\ Prefix(s, Len(t)) = t

\* s.rstrip('/')
RECURSIVE RStripSlash(_)
RStripSlash(s) ==
    IF Len(s) > 0 /\ Char(s, Len(s)) = "/" THEN RStripSlash(Prefix(s, Len(s) - 1)) ELSE s

(***************************************************************************)
(* os.path.dirname (posixpath): everything up to the last slash, with the  *)
(* trailing slashes removed unless the head is made of slashes only.       *)
(***************************************************************************)
LastSlash(p) ==
    LET sl == {i \in 1..Len(p) : Char(p, i) = "/"}
    IN  IF sl = {} THEN 0 ELSE CHOOSE i \in sl : \A j \in sl : j <= i

Dirname(p) ==
    LET head == Prefix(p, LastSlash(p))
    IN  IF head # "" /\ RStripSlash(head) # "" THEN RStripSlash(head) ELSE head

(***************************************************************************)
(* int(): the conversion argparse applies to --host-port and               *)
(* --container-port (type=int), for an optional sign followed by decimal   *)
(* digits; any other text is rejected.                                     *)
(***************************************************************************)
Digits == <<"0", "1", "2", "3", "4", "5", "6", "7", "8", "9">>

IsDigit(c) == \E d \in 1..Len(Digits) : Digits[d] = c

DigitValue(c) == (CHOOSE d \in 1..Len(Digits) : Digits[d] = c) - 1

RECURSIVE DigitsValue(_)
DigitsValue(s) ==
    IF s = "" THEN 0
    ELSE DigitsValue(Prefix(s, Len(s) - 1)) * 10 + DigitValue(Char(s, Len(s)))

IsIntLiteral(s) ==
    LET body == IF StartsWith(s, "-") \/ StartsWith(s, "+") THEN Suffix(s, 1) ELSE s
    IN  body # "" /\ \A i \in 1..Len(body) : IsDigit(Char(body, i))

ParseInt(s) ==
    IF StartsWith(s, "-") THEN 0 - DigitsValue(Suffix(s, 1))
    ELSE IF StartsWith(s, "+") THEN DigitsValue(Suffix(s, 1))
    ELSE DigitsValue(s)

(***************************************************************************)
(* The command lines tried.  A port option is the text after the flag.     *)
(***************************************************************************)
OutputArgs == {Absent, "/tmp/x/y/docker-compose.yml", "/ro/docker-compose.yml",
               "docker-compose.yml"}

HostPortArgs == {Absent, "-1", "80a"}

ContainerPortArgs == {Absent, "-1"}

UserArgs == {Absent, "coder", "svc", "ghost"}

\* the command lines of the invocations run one after another
Argv == [output : OutputArgs, host_port : HostPortArgs,
         container_port : ContainerPortArgs, user : UserArgs,
         projects_subdir : {Absent}, config_subdir : {Absent},
         use_docker_socket : BOOLEAN]

\* the command lines of two invocations that target the same output path
ConcArgv == [output : {"/tmp/x/y/docker-compose.yml"}, host_port : {Absent, "-1"},
             container_port : {Absent}, user : {"coder"},
             projects_subdir : {Absent, "work"}, config_subdir : {Absent, "cfg"},
             use_docker_socket : BOOLEAN]

\* sys.argv before the process has started
NoArgv == [output |-> Absent, host_port |-> Absent, container_port |-> Absent,
           user |-> Absent, projects_subdir |-> Absent, config_subdir |-> Absent,
           use_docker_socket |-> FALSE]

\* args before parse_args has returned
NoArgs == [output |-> Absent, host_port |-> 0, container_port |-> 0, user |-> Absent,
           projects_subdir |-> Absent, config_subdir |-> Absent,
           use_docker_socket |-> FALSE]

(***************************************************************************)
(* The host: its account databases and the directories that exist before   *)
(* the first invocation.  "coder" has a group of its own name, "svc" is an *)
(* account whose primary group has another name, "ghost" does not exist.   *)
(***************************************************************************)
Passwd == [coder |-> [pw_uid |-> 1000, pw_gid |-> 100],
           svc   |-> [pw_uid |-> 999,  pw_gid |-> 100]]

Group == [coder |-> [gr_gid |-> 1001],
          users |-> [gr_gid |-> 100]]

InitialDirs == {"/", ".", "/tmp", "/ro"}

ReadOnlyDirs == {"/", "/ro"}

\* the files the invocations can name
FilePaths == OutputArgs \ {Absent}

NoFile == [exists |-> FALSE, data |-> ""]

(***************************************************************************)
(* argparse: parse_args() of the parser built at lines 69-76.              *)
(***************************************************************************)
\* the message of parser.error(), "" when the command line is accepted
ArgparseError(argv) ==
    IF argv.host_port # Absent /\ ~IsIntLiteral(argv.host_port)
    THEN "argument --host-port: invalid int value: '" \o argv.host_port \o "'"
    ELSE IF argv.container_port # Absent /\ ~IsIntLiteral(argv.container_port)
    THEN "argument --container-port: invalid int value: '" \o argv.container_port \o "'"
    ELSE IF argv.output = Absent /\ argv.user = Absent
    THEN "the following arguments are required: --output, --user"
    ELSE IF argv.output = Absent
    THEN "the following arguments are required: --output"
    ELSE IF argv.user = Absent
    THEN "the following arguments are required: --user"
    ELSE ""

\* the Namespace of an accepted command line
ParsedArgs(argv) ==
    [output            |-> argv.output,
     host_port         |-> IF argv.host_port = Absent THEN DefaultPort
                           ELSE ParseInt(argv.host_port),
     container_port    |-> IF argv.container_port = Absent THEN DefaultPort
                           ELSE ParseInt(argv.container_port),
     user              |-> argv.user,
     projects_subdir   |-> IF argv.projects_subdir = Absent THEN "projects"
                           ELSE argv.projects_subdir,
     config_subdir     |-> IF argv.config_subdir = Absent THEN "config"
                           ELSE argv.config_subdir,
     use_docker_socket |-> argv.use_docker_socket]

(***************************************************************************)
(* generate_compose_yaml, lines 12-20: the user directive.                 *)
(***************************************************************************)
\* pwd.getpwnam(user_name) or grp.getgrnam(user_name) raises KeyError
LookupRaisesKeyError(user_name) ==
    user_name \notin DOMAIN Passwd \/ user_name \notin DOMAIN Group

ActiveDirective(uid, gid) == "user: \"" \o ToString(uid) \o ":" \o ToString(gid) \o "\""

PlaceholderDirective == "# user: \"<uid>:<gid>\" # Set manually if needed"

UserDirective(user_name) ==
    IF LookupRaisesKeyError(user_name) THEN PlaceholderDirective
    ELSE ActiveDirective(Passwd[user_name].pw_uid, Group[user_name].gr_gid)

LookupWarning(user_name) ==
    "[Warning] User '" \o user_name \o "' not found locally when generating compose. "
    \o "Container might run as default user. Ensure '" \o user_name
    \o "' exists on the host."

(***************************************************************************)
(* generate_compose_yaml, lines 24-55: the document.                       *)
(***************************************************************************)
SocketMount == "- /var/run/docker.sock:/var/run/docker.sock"

\* the socket mount left active whatever the flag
SocketLineAlwaysActive(use_docker_socket) == SocketMount

SocketLine(use_docker_socket) ==
    IF use_docker_socket THEN SocketMount ELSE "# " \o SocketMount

\* the two ports in the wrong order
PortMappingSwapped(host_port, container_port) ==
    "\"" \o ToString(container_port) \o ":" \o ToString(host_port) \o "\""

PortMapping(host_port, container_port) ==
    "\"" \o ToString(host_port) \o ":" \o ToString(container_port) \o "\""

\* the literal text of the f-string around its five replacement fields
ComposeTemplate(config_subdir, projects_subdir, socket_line, port_mapping, directive) ==
    "\n"
    \o "services:\n"
    \o "  code-server:\n"
    \o "    image: codercom/code-server:latest # Official image\n"
    \o "    container_name: code-server\n"
    \o "    command: [\"--cert\"]\n"
    \o "    environment:\n"
    \o "      # Optional: Set passwords via environment variables if desired\n"
    \o "      # - PASSWORD=your_strong_password_here # Set a fixed password\n"
    \o "      # - SUDO_PASSWORD=optional_sudo_password # If you need sudo inside\n"
    \o "      - TZ=Etc/UTC\n"
    \o "    volumes:\n"
    \o "      # Map config dir from host (relative to compose file) to container\n"
    \o "      - ./" \o config_subdir \o ":/home/coder/.config \n"
    \o "      # Map local settings dir from host (relative to compose file) to container\n"
    \o "      - ./" \o config_subdir \o "/local-share:/home/coder/.local/share/code-server\n"
    \o "      # Map projects dir from host (relative to compose file) to container\n"
    \o "      - ./" \o projects_subdir \o ":/home/coder/projects\n"
    \o "      # Optional: Mount docker socket (use with caution)\n"
    \o "      " \o socket_line \o "\n"
    \o "    ports:\n"
    \o "      # Map host port to container port\n"
    \o "      - " \o port_mapping \o "\n"
    \o "    restart: unless-stopped\n"
    \o "    # Run the container process as the host user for correct volume permissions\n"
    \o "    " \o directive \o "\n"
    \o "\n"
    \o "networks:\n"
    \o "  default:\n"
    \o "    name: code-server_network\n"
    \o "\n"

\* a document that records the file it was generated for
ComposeContentStamped(a, directive) ==
    ComposeTemplate(a.config_subdir, a.projects_subdir, SocketLine(a.use_docker_socket),
                    PortMapping(a.host_port, a.container_port), directive)
    \o "# generated for " \o a.output \o "\n"

\* compose_content: the f-string evaluated with the parameters of the call
ComposeContent(a, directive) ==
    ComposeTemplate(a.config_subdir, a.projects_subdir, SocketLine(a.use_docker_socket),
                    PortMapping(a.host_port, a.container_port), directive)

(***************************************************************************)
(* The filesystem calls of lines 60-62.                                    *)
(***************************************************************************)
FileNotFound(name) ==
    [errno |-> 2, strerror |-> "No such file or directory", filename |-> name]

PermissionDenied(name) ==
    [errno |-> 13, strerror |-> "Permission denied", filename |-> name]

NoSpaceLeft == [errno |-> 28, strerror |-> "No space left on device", filename |-> NoName]

InputOutputError == [errno |-> 5, strerror |-> "Input/output error", filename |-> NoName]

\* str(e) of an OSError
StrOSError(e) ==
    "[Errno " \o ToString(e.errno) \o "] " \o e.strerror
    \o (IF e.filename = NoName THEN "" ELSE ": '" \o e.filename \o "'")

\* the directory a relative or absolute name is looked up in
ParentDir(name) == IF Dirname(name) = "" THEN "." ELSE Dirname(name)

\* os.mkdir(name) in the directories d: the directories afterwards and the error
Mkdir(d, name) ==
    IF name = "" THEN [dirs |-> d, error |-> FileNotFound(name)]
    ELSE IF name \in d THEN [dirs |-> d, error |-> [errno |-> 17, strerror |-> "File exists",
                                                    filename |-> name]]
    ELSE IF ParentDir(name) \notin d THEN [dirs |-> d, error |-> FileNotFound(name)]
    ELSE IF ParentDir(name) \in ReadOnlyDirs
    THEN [dirs |-> d, error |-> PermissionDenied(name)]
    ELSE [dirs |-> d \cup {name}, error |-> NoError]

\* os.makedirs(name, exist_ok=exist_ok): the missing ancestors first, then name;
\* an error of the last mkdir is dropped when exist_ok and name is a directory
RECURSIVE Makedirs(_, _, _)
Makedirs(d, name, exist_ok) ==
    LET head == Dirname(name)
        up   == IF head # "" /\ head # name /\ head \notin d
                THEN Makedirs(d, head, exist_ok)
                ELSE [dirs |-> d, error |-> NoError]
        made == Mkdir(up.dirs, name)
    IN  IF up.error # NoError /\ up.error.errno # 17 THEN up
        ELSE IF made.error # NoError /\ exist_ok /\ name \in up.dirs
        THEN [dirs |-> up.dirs, error |-> NoError]
        ELSE made

\* os.mkdir in the place of os.makedirs: no ancestor is created
EnsureOutputDirMkdirOnly(d, output_path) == Mkdir(d, Dirname(output_path))

\* line 60: os.makedirs(os.path.dirname(output_path), exist_ok=True)
EnsureOutputDir(d, output_path) == Makedirs(d, Dirname(output_path), TRUE)

\* open(path, 'r+') on a file that exists: the content is kept
OpenForWritingNoTrunc(d, file, path) ==
    IF ParentDir(path) \notin d THEN [file |-> file, error |-> FileNotFound(path)]
    ELSE IF ~file.exists /\ ParentDir(path) \in ReadOnlyDirs
    THEN [file |-> file, error |-> PermissionDenied(path)]
    ELSE [file |-> [exists |-> TRUE, data |-> file.data], error |-> NoError]

\* open(path, 'w'): O_WRONLY | O_CREAT | O_TRUNC; the file afterwards and the error
OpenForWriting(d, file, path) ==
    IF ParentDir(path) \notin d THEN [file |-> file, error |-> FileNotFound(path)]
    ELSE IF ~file.exists /\ ParentDir(path) \in ReadOnlyDirs
    THEN [file |-> file, error |-> PermissionDenied(path)]
    ELSE [file |-> [exists |-> TRUE, data |-> ""], error |-> NoError]

\* write(2) of the first n characters of text at offset pos of the file
WriteAt(file, pos, text, n) ==
    [exists |-> TRUE,
     data   |-> Prefix(file.data, pos) \o Prefix(text, n) \o Suffix(file.data, pos + n)]

(***************************************************************************)
(* State                                                                   *)
(***************************************************************************)
VARIABLES
    pc,               \* pc[p]: the statement invocation p executes next
    argv,             \* argv[p]: the command line invocation p was started with
    args,             \* args[p]: the Namespace parse_args returned
    user_directive,   \* user_directive[p]: the local of line 16 or 20
    compose_content,  \* compose_content[p]: the local of line 24
    f,                \* f[p]: the file object of line 61
    exc,              \* exc[p]: the OSError raised inside the try of line 58
    stdout,           \* stdout[p]: the lines printed to sys.stdout
    stderr,           \* stderr[p]: the lines printed to sys.stderr
    exit_status,      \* exit_status[p]: {} while p runs, {status} once it has ended
    dirs,             \* the directories that exist on the host
    files,            \* files[path]: the file at path
    runs,             \* the number of invocations started one after another
    last              \* the previous invocation, as the shell saw it end

vars == <<pc, argv, args, user_directive, compose_content, f, exc, stdout, stderr,
          exit_status, dirs, files, runs, last>>

ClosedFile == [open |-> FALSE, path |-> "", pos |-> 0, buffer |-> ""]

NoRun == [ran |-> FALSE, args |-> NoArgs, user_directive |-> "", compose_content |-> "",
          exit_status |-> {}, file |-> NoFile]

Init ==
    /\ pc = [p \in Procs |-> "parse_args"]
    /\ argv = [p \in Procs |-> NoArgv]
    /\ args = [p \in Procs |-> NoArgs]
    /\ user_directive = [p \in Procs |-> ""]
    /\ compose_content = [p \in Procs |-> ""]
    /\ f = [p \in Procs |-> ClosedFile]
    /\ exc = [p \in Procs |-> NoError]
    /\ stdout = [p \in Procs |-> <<>>]
    /\ stderr = [p \in Procs |-> <<>>]
    /\ exit_status = [p \in Procs |-> {}]
    /\ dirs = InitialDirs
    /\ files = [path \in FilePaths |-> NoFile]
    /\ runs = 1
    /\ last = NoRun

(***************************************************************************)
(* Steps of one invocation                                                 *)
(***************************************************************************)
\* line 78: parser.parse_args(); a rejected command line ends the run with status 2
ParseArgs(p, line) ==
    /\ pc[p] = "parse_args"
    /\ argv' = [argv EXCEPT ![p] = line]
    /\ IF ArgparseError(line) # ""
       THEN /\ stderr' = [stderr EXCEPT ![p] =
                            Append(@, "generate_compose.py: error: " \o ArgparseError(line))]
            /\ exit_status' = [exit_status EXCEPT ![p] = {2}]
            /\ pc' = [pc EXCEPT ![p] = "done"]
            /\ UNCHANGED args
       ELSE /\ args' = [args EXCEPT ![p] = ParsedArgs(line)]
            /\ pc' = [pc EXCEPT ![p] = "resolve_user"]
            /\ UNCHANGED <<stderr, exit_status>>
    /\ UNCHANGED <<user_directive, compose_content, f, exc, stdout, dirs, files, runs, last>>

\* lines 13-20: the lookup of the user and of the group of the same name
ResolveUser(p) ==
    /\ pc[p] = "resolve_user"
    /\ user_directive' = [user_directive EXCEPT ![p] = UserDirective(args[p].user)]
    /\ stderr' = [stderr EXCEPT ![p] =
                    IF LookupRaisesKeyError(args[p].user)
                    THEN Append(@, LookupWarning(args[p].user)) ELSE @]
    /\ pc' = [pc EXCEPT ![p] = "render"]
    /\ UNCHANGED <<argv, args, compose_content, f, exc, stdout, exit_status, dirs, files, runs, last>>

\* lines 24-55: the f-string
Render(p) ==
    /\ pc[p] = "render"
    /\ compose_content' = [compose_content EXCEPT ![p] =
                              ComposeContent(args[p], user_directive[p])]
    /\ pc' = [pc EXCEPT ![p] = "makedirs"]
    /\ UNCHANGED <<argv, args, user_directive, f, exc, stdout, stderr, exit_status, dirs, files,
                   runs, last>>

\* line 60
MakeOutputDir(p) ==
    /\ pc[p] = "makedirs"
    /\ LET made == EnsureOutputDir(dirs, args[p].output)
       IN  /\ dirs' = made.dirs
           /\ exc' = [exc EXCEPT ![p] = made.error]
           /\ pc' = [pc EXCEPT ![p] = IF made.error = NoError THEN "open" ELSE "except"]
    /\ UNCHANGED <<argv, args, user_directive, compose_content, f, stdout, stderr, exit_status,
                   files, runs, last>>

\* line 61: open(output_path, 'w')
OpenFile(p) ==
    /\ pc[p] = "open"
    /\ LET opened == OpenForWriting(dirs, files[args[p].output], args[p].output)
       IN  /\ files' = [files EXCEPT ![args[p].output] = opened.file]
           /\ exc' = [exc EXCEPT ![p] = opened.error]
           /\ IF opened.error = NoError
              THEN /\ f' = [f EXCEPT ![p] = [open |-> TRUE, path |-> args[p].output,
                                             pos |-> 0, buffer |-> ""]]
                   /\ pc' = [pc EXCEPT ![p] = "write"]
              ELSE /\ pc' = [pc EXCEPT ![p] = "except"]
                   /\ UNCHANGED f
    /\ UNCHANGED <<argv, args, user_directive, compose_content, stdout, stderr, exit_status,
                   dirs, runs, last>>

\* line 62: f.write(compose_content); the document is shorter than the buffer of
\* the file object, so that it stays in the buffer until the file is closed
WriteFile(p) ==
    /\ pc[p] = "write"
    /\ f' = [f EXCEPT ![p].buffer = @ \o compose_content[p]]
    /\ pc' = [pc EXCEPT ![p] = "close"]
    /\ UNCHANGED <<argv, args, user_directive, compose_content, exc, stdout, stderr, exit_status,
                   dirs, files, runs, last>>

\* the end of the with block of line 61: f.close() writes the buffer at the offset
\* of the file object and closes the descriptor.  The disk may be full after
\* `written` characters, or an error may be reported after all of them.
CloseFile(p, written, error) ==
    /\ pc[p] = "close"
    /\ files' = [files EXCEPT ![f[p].path] = WriteAt(@, f[p].pos, f[p].buffer, written)]
    /\ f' = [f EXCEPT ![p] = ClosedFile]
    /\ exc' = [exc EXCEPT ![p] = error]
    /\ pc' = [pc EXCEPT ![p] = IF error = NoError THEN "print_info" ELSE "except"]
    /\ UNCHANGED <<argv, args, user_directive, compose_content, stdout, stderr, exit_status,
                   dirs, runs, last>>

\* the outcomes of the flush and close of one file object
CloseOutcomes(p) ==
    {<<Len(f[p].buffer), NoError>>, <<Len(f[p].buffer), InputOutputError>>,
     <<Len(f[p].buffer) \div 2, NoSpaceLeft>>}

\* line 63, and the return to the shell with status 0
PrintInfo(p) ==
    /\ pc[p] = "print_info"
    /\ stdout' = [stdout EXCEPT ![p] =
          Append(@, "[Info] docker-compose.yml successfully generated at: " \o args[p].output)]
    /\ exit_status' = [exit_status EXCEPT ![p] = {0}]
    /\ pc' = [pc EXCEPT ![p] = "done"]
    /\ UNCHANGED <<argv, args, user_directive, compose_content, f, exc, stderr, dirs, files,
                   runs, last>>

\* the handler without its sys.exit(1): the run ends like a successful one
ExceptIOErrorNoExit(p) ==
    /\ pc[p] = "except"
    /\ stderr' = [stderr EXCEPT ![p] =
          Append(@, "[Error] Failed to write docker-compose.yml to " \o args[p].output
                    \o ": " \o StrOSError(exc[p]))]
    /\ exit_status' = [exit_status EXCEPT ![p] = {0}]
    /\ pc' = [pc EXCEPT ![p] = "done"]
    /\ UNCHANGED <<argv, args, user_directive, compose_content, f, exc, stdout, dirs, files,
                   runs, last>>

\* lines 64-66: except IOError as e
ExceptIOError(p) ==
    /\ pc[p] = "except"
    /\ stderr' = [stderr EXCEPT ![p] =
          Append(@, "[Error] Failed to write docker-compose.yml to " \o args[p].output
                    \o ": " \o StrOSError(exc[p]))]
    /\ exit_status' = [exit_status EXCEPT ![p] = {1}]
    /\ pc' = [pc EXCEPT ![p] = "done"]
    /\ UNCHANGED <<argv, args, user_directive, compose_content, f, exc, stdout, dirs, files,
                   runs, last>>

\* the operator starts the program again after it has ended
Rerun(p) ==
    /\ pc[p] = "done"
    /\ runs < MaxRuns
    /\ runs' = runs + 1
    /\ last' = [ran |-> TRUE, args |-> args[p], user_directive |-> user_directive[p],
                compose_content |-> compose_content[p], exit_status |-> exit_status[p],
                file |-> IF args[p].output \in FilePaths THEN files[args[p].output]
                         ELSE NoFile]
    /\ pc' = [pc EXCEPT ![p] = "parse_args"]
    /\ argv' = [argv EXCEPT ![p] = NoArgv]
    /\ args' = [args EXCEPT ![p] = NoArgs]
    /\ user_directive' = [user_directive EXCEPT ![p] = ""]
    /\ compose_content' = [compose_content EXCEPT ![p] = ""]
    /\ exc' = [exc EXCEPT ![p] = NoError]
    /\ stdout' = [stdout EXCEPT ![p] = <<>>]
    /\ stderr' = [stderr EXCEPT ![p] = <<>>]
    /\ exit_status' = [exit_status EXCEPT ![p] = {}]
    /\ UNCHANGED <<f, dirs, files>>

\* one statement of invocation p after its command line is parsed
Step(p) ==
    \/ ResolveUser(p)
    \/ Render(p)
    \/ MakeOutputDir(p)
    \/ OpenFile(p)
    \/ WriteFile(p)
    \/ \E o \in CloseOutcomes(p) : CloseFile(p, o[1], o[2])
    \/ PrintInfo(p)
    \/ ExceptIOError(p)

\* invocations of one operator, one after another
Next ==
    \/ \E line \in Argv : ParseArgs(1, line)
    \/ Step(1)
    \/ Rerun(1)

Spec == Init /\ [][Next]_vars

\* two invocations on the same output path, started together
NextConc ==
    \/ \E p \in Procs, line \in ConcArgv : ParseArgs(p, line)
    \/ \E p \in Procs : Step(p)

SpecConc == Init /\ [][NextConc]_vars

(***************************************************************************)
(* Vocabulary of the properties                                            *)
(***************************************************************************)
Ended(p) == pc[p] = "done"

\* the last line invocation p printed to sys.stderr, "" when there is none
LastStderr(p) == IF stderr[p] = <<>> THEN "" ELSE stderr[p][Len(stderr[p])]

SuccessMessage(path) == "[Info] docker-compose.yml successfully generated at: " \o path

\* the errors of the device at the flush and close of the file
DeviceErrors == {NoSpaceLeft, InputOutputError}

\* t in s
Contains(s, t) == \E i \in 1..(Len(s) - Len(t) + 1) : SubSeq(s, i, i + Len(t) - 1) = t

\* s.lstrip(' ')
RECURSIVE LStripSpace(_)
LStripSpace(s) ==
    IF Len(s) > 0 /\ Char(s, 1) = " " THEN LStripSpace(Suffix(s, 1)) ELSE s

\* the pieces of s from position `from` on, cut at the positions nls of its newlines
RECURSIVE SplitAt(_, _, _)
SplitAt(s, from, nls) ==
    IF nls = {} THEN <<SubSeq(s, from, Len(s))>>
    ELSE LET i == CHOOSE i \in nls : \A j \in nls : i <= j
         IN  <<SubSeq(s, from, i - 1)>> \o SplitAt(s, i + 1, nls \ {i})

\* s.split('\n'): the pieces between the newlines of s, the last one included
SplitLines(s) == SplitAt(s, 1, {i \in 1..Len(s) : Char(s, i) = "\n"})

\* the directories above path, nearest first
RECURSIVE Ancestors(_)
Ancestors(path) ==
    IF Dirname(path) = "" \/ Dirname(path) = path THEN {}
    ELSE {Dirname(path)} \cup Ancestors(Dirname(path))

\* path has a directory component, every missing directory above it can be
\* created, and the directory of the file, when it exists, is writable
UnderWritableRoot(d, path) ==
    /\ Dirname(path) # ""
    /\ \A a \in Ancestors(path) \ d : ParentDir(a) \notin d \/ ParentDir(a) \notin ReadOnlyDirs
    /\ Dirname(path) \in d => Dirname(path) \notin ReadOnlyDirs

\* the numbers of the lines of a document that read exactly l
LinesEqual(lines, l) == {i \in DOMAIN lines : lines[i] = l}

\* the numbers of the active YAML list entries strictly between two lines
ActiveEntries(lines, from, to) ==
    {i \in (from + 1)..(to - 1) : StartsWith(LStripSpace(lines[i]), "- ")}

\* the text of a port as the command line gave it
PortText(option) == IF option = Absent THEN ToString(DefaultPort) ELSE option

(***************************************************************************)
(* C1 (as amended): every failure of directory creation, open or write     *)
(* ends the run with an error on stderr that names the output path and the *)
(* cause, with a non-zero status and without the success message, and no   *)
(* statement runs between the failure and the handler; a run also ends     *)
(* with a non-zero status (2) when argparse rejects the command line, and  *)
(* then nothing was generated.                                             *)
(***************************************************************************)
Thm_C1 ==
    \A p \in Procs :
        /\ exc[p] # NoError => pc[p] \in {"except", "done"}
        /\ Ended(p) /\ exc[p] # NoError =>
              /\ exit_status[p] = {1}
              /\ stdout[p] = <<>>
              /\ StartsWith(LastStderr(p), "[Error]")
              /\ Contains(LastStderr(p), args[p].output)
              /\ Contains(LastStderr(p), exc[p].strerror)
        /\ Ended(p) /\ exit_status[p] # {0} /\ exc[p] = NoError =>
              /\ exit_status[p] = {2}
              /\ ArgparseError(argv[p]) # ""
              /\ args[p] = NoArgs
              /\ compose_content[p] = ""
              /\ stdout[p] = <<>>

\* a run has ended on a full disk
W_C1 == Ended(1) /\ exc[1] = NoSpaceLeft /\ exit_status[1] = {1}

(***************************************************************************)
(* C1 (as claimed): a failure of directory creation, open or write is      *)
(* reported and ends the run with a non-zero status, and it is the only    *)
(* way a run ends with a non-zero status.                                  *)
(***************************************************************************)
CE_C1 ==
    \A p \in Procs :
        /\ Ended(p) /\ exc[p] # NoError =>
              /\ exit_status[p] # {0}
              /\ stdout[p] = <<>>
              /\ Contains(LastStderr(p), args[p].output)
              /\ Contains(LastStderr(p), exc[p].strerror)
        /\ Ended(p) /\ exit_status[p] # {0} => exc[p] # NoError

(***************************************************************************)
(* C2 (as claimed): the user directive is the active line                  *)
(* user: "<uid>:<gid>" whenever the user name is an account of the host;   *)
(* otherwise it is the placeholder and exactly one warning is on stderr    *)
(* when the write begins, and the exit status is that of the write.        *)
(***************************************************************************)
CE_C2 ==
    \A p \in Procs :
        pc[p] \notin {"parse_args", "resolve_user"} /\ args[p] # NoArgs =>
            IF args[p].user \in DOMAIN Passwd
            THEN /\ StartsWith(user_directive[p],
                               "user: \"" \o ToString(Passwd[args[p].user].pw_uid) \o ":")
                 /\ stderr[p] = <<>> \/ pc[p] = "done"
            ELSE /\ user_directive[p] = PlaceholderDirective
                 /\ pc[p] \in {"render", "makedirs", "open", "write", "close"} =>
                       Len(stderr[p]) = 1 /\ StartsWith(stderr[p][1], "[Warning]")
                 /\ Ended(p) => (exit_status[p] = {0} <=> exc[p] = NoError)

(***************************************************************************)
(* C3 (as claimed): when two invocations on the same output path have both *)
(* ended with status 0, the file holds exactly the complete document of    *)
(* one of them, the one that wrote last, never a mixture of the two.       *)
(***************************************************************************)
CE_C3 ==
    \A p, q \in Procs :
        /\ p # q
        /\ Ended(p) /\ Ended(q)
        /\ exit_status[p] = {0} /\ exit_status[q] = {0}
        /\ args[p].output = args[q].output
        => files[args[p].output].data \in {compose_content[p], compose_content[q]}

(***************************************************************************)
(* C4 (as claimed): when a run ends with a write failure, a file that the  *)
(* previous run left complete at the same output path still has that       *)
(* content.                                                                *)
(***************************************************************************)
CE_C4 ==
    /\ Ended(1) /\ exit_status[1] = {1}
    /\ last.ran /\ last.exit_status = {0}
    /\ last.args.output = args[1].output
    => files[args[1].output] = last.file

(***************************************************************************)
(* C5: for an output path under a writable root, whose directories are     *)
(* missing or exist already, neither the directory creation nor the open   *)
(* fails; once the directories are made every directory above the file     *)
(* exists; and unless the device fails at the flush, the run ends with     *)
(* status 0, the file written and the success message naming the path.     *)
(***************************************************************************)
Thm_C5 ==
    \A p \in Procs :
        args[p] # NoArgs /\ UnderWritableRoot(dirs, args[p].output) =>
            /\ exc[p] \in {NoError} \cup DeviceErrors
            /\ pc[p] \in {"open", "write", "close", "print_info", "done"} =>
                  Ancestors(args[p].output) \subseteq dirs
            /\ Ended(p) /\ exc[p] = NoError =>
                  /\ exit_status[p] = {0}
                  /\ stdout[p] = <<SuccessMessage(args[p].output)>>
                  /\ files[args[p].output] =
                        [exists |-> TRUE, data |-> compose_content[p]]

\* the first run, started while /tmp/x and /tmp/x/y are missing, has succeeded
W_C5 ==
    /\ runs = 1 /\ Ended(1) /\ exit_status[1] = {0}
    /\ {"/tmp/x", "/tmp/x/y"} \subseteq Ancestors(args[1].output) \ InitialDirs
    /\ Ancestors(args[1].output) \subseteq dirs

(***************************************************************************)
(* C6: after a run with status 0 the file at the output path holds exactly *)
(* the rendered document, whatever the file held before; and a run with    *)
(* the same arguments and the same directive as the previous successful    *)
(* run leaves the file as that run left it.                                *)
(***************************************************************************)
Thm_C6 ==
    Ended(1) /\ exit_status[1] = {0} =>
        /\ files[args[1].output] = [exists |-> TRUE, data |-> compose_content[1]]
        /\ ( /\ last.ran /\ last.exit_status = {0}
             /\ last.args = args[1]
             /\ last.user_directive = user_directive[1] )
           => files[args[1].output] = last.file

\* a successful run over a longer document of the previous successful run
W_C6 ==
    /\ Ended(1) /\ exit_status[1] = {0}
    /\ last.ran /\ last.exit_status = {0}
    /\ last.args.output = args[1].output
    /\ Len(last.file.data) > Len(compose_content[1])

(***************************************************************************)
(* C7: in the document as rendered, with use_docker_socket the fourth and  *)
(* last active entry under volumes is the socket mount; without it the     *)
(* line in that place is the commented mount, three active entries remain  *)
(* and no line of the document is an active socket mount.                  *)
(***************************************************************************)
Thm_C7 ==
    \A p \in Procs :
        pc[p] = "makedirs" =>
            LET lines   == SplitLines(compose_content[p])
                volumes == LinesEqual(lines, "    volumes:")
                ports   == LinesEqual(lines, "    ports:")
            IN  /\ Cardinality(volumes) = 1
                /\ Cardinality(ports) = 1
                /\ LET v       == CHOOSE i \in volumes : TRUE
                       q       == CHOOSE i \in ports : TRUE
                       entries == ActiveEntries(lines, v, q)
                       mounts  == {i \in DOMAIN lines :
                                     StartsWith(LStripSpace(lines[i]), "- /var/run/docker.sock")}
                   IN  IF args[p].use_docker_socket
                       THEN /\ Cardinality(entries) = 4
                            /\ q - 1 \in entries
                            /\ lines[q - 1] = "      - /var/run/docker.sock:/var/run/docker.sock"
                            /\ mounts = {q - 1}
                       ELSE /\ Cardinality(entries) = 3
                            /\ lines[q - 1] = "      # - /var/run/docker.sock:/var/run/docker.sock"
                            /\ mounts = {}

\* a document rendered without the socket flag
W_C7 == pc[1] = "makedirs" /\ ~args[1].use_docker_socket
        /\ Contains(compose_content[1], "# - /var/run/docker.sock")

(***************************************************************************)
(* C8: two runs with the same ports, subdirectory names and socket flag    *)
(* and the same user directive render the same document, whatever their    *)
(* output paths and user names and however the earlier run ended.          *)
(***************************************************************************)
Thm_C8 ==
    /\ last.ran /\ last.compose_content # "" /\ compose_content[1] # ""
    /\ last.args.host_port = args[1].host_port
    /\ last.args.container_port = args[1].container_port
    /\ last.args.projects_subdir = args[1].projects_subdir
    /\ last.args.config_subdir = args[1].config_subdir
    /\ last.args.use_docker_socket = args[1].use_docker_socket
    /\ last.user_directive = user_directive[1]
    => compose_content[1] = last.compose_content

\* the same request rendered for another path and another user, after a failed run
W_C8 ==
    /\ last.ran /\ last.compose_content # "" /\ compose_content[1] # ""
    /\ last.args.host_port = args[1].host_port
    /\ last.args.container_port = args[1].container_port
    /\ last.args.use_docker_socket = args[1].use_docker_socket
    /\ last.user_directive = user_directive[1]
    /\ last.args.output # args[1].output
    /\ last.args.user # args[1].user
    /\ last.exit_status = {1}

(***************************************************************************)
(* C9: a command line is rejected only for a missing required option or a  *)
(* port that is no integer, never for the value of a port; the document as *)
(* rendered has exactly one active entry under ports, and it reads         *)
(* "<host port>:<container port>" with the values of the command line,     *)
(* 8443 for an omitted one.                                                *)
(***************************************************************************)
Thm_C9 ==
    \A p \in Procs :
        /\ exit_status[p] = {2} =>
              \/ argv[p].output = Absent
              \/ argv[p].user = Absent
              \/ argv[p].host_port # Absent /\ ~IsIntLiteral(argv[p].host_port)
              \/ argv[p].container_port # Absent /\ ~IsIntLiteral(argv[p].container_port)
        /\ pc[p] = "makedirs" =>
              LET lines   == SplitLines(compose_content[p])
                  ports   == LinesEqual(lines, "    ports:")
                  restart == LinesEqual(lines, "    restart: unless-stopped")
              IN  /\ Cardinality(ports) = 1
                  /\ Cardinality(restart) = 1
                  /\ LET q       == CHOOSE i \in ports : TRUE
                         r       == CHOOSE i \in restart : TRUE
                         entries == ActiveEntries(lines, q, r)
                     IN  /\ Cardinality(entries) = 1
                         /\ \A i \in entries :
                               lines[i] = "      - \"" \o PortText(argv[p].host_port) \o ":"
                                          \o PortText(argv[p].container_port) \o "\""

\* a document rendered for a negative host port and the default container port
W_C9 ==
    /\ pc[1] = "makedirs"
    /\ args[1].host_port < 0
    /\ argv[1].container_port = Absent
    /\ Contains(compose_content[1], "\"-1:8443\"")

(***************************************************************************)
(* C10 (as claimed): for an output path without a directory component the  *)
(* directory creation succeeds as a no-op, and unless the device fails at  *)
(* the flush the run ends with status 0 and the file written.              *)
(***************************************************************************)
CE_C10 ==
    \A p \in Procs :
        Ended(p) /\ args[p] # NoArgs /\ Dirname(args[p].output) = ""
        /\ exc[p] \notin DeviceErrors
        => /\ exit_status[p] = {0}
           /\ files[args[p].output].data = compose_content[p]

====
